---- MODULE Spec2Model ----
(***************************************************************************)
(* Model of runner.py: the Twilio webhook that provisions a Daily room and *)
(* starts a bot process for every incoming call.                           *)
(*                                                                         *)
(* Text is modelled as a sequence of atoms.  An atom is either one         *)
(* character of a value that comes from outside (a form field, a room      *)
(* url, a token) or one whole literal word of the program text             *)
(* ("python3", "-u").  The atom " " is the space character.                *)
(*                                                                         *)
(* Python values are tagged records: [t |-> "none"], [t |-> "str", v |->   *)
(* text], [t |-> "room", url |-> text, config |-> [sip_endpoint |-> text]].*)
(*                                                                         *)
(* The handler is an asyncio coroutine: it runs without interruption from  *)
(* one await to the next, so there is one action per stretch of code       *)
(* between two awaits of an outbound call.                                 *)
(***************************************************************************)
EXTENDS Integers, Sequences, FiniteSets, TLC

\* ------------------------------------------------------------- bounds
\* Number of requests the server handles concurrently.
NumReqs == 2
\* Longest CallSid value a request carries.
MaxLen == 1

Reqs == 1..NumReqs

\* ------------------------------------------------------ configuration
MAX_SESSION_TIME_Hour == 60 * 60

MAX_SESSION_TIME == 5 * 60

REQUIRED_ENV_VARS_FirstOnly == <<"OPENAI_API_KEY">>

REQUIRED_ENV_VARS == <<"OPENAI_API_KEY", "DAILY_API_KEY">>

\* The environment variables the startup code looks at, and the mark of one
\* that is not in os.environ.
EnvNames == {"OPENAI_API_KEY", "DAILY_API_KEY"}

Unset == "<unset>"

\* ------------------------------------------------------ python values
None == [t |-> "none"]

Str(v) == [t |-> "str", v |-> v]

RoomObject(url, sip) ==
    [t |-> "room", url |-> url, config |-> [sip_endpoint |-> sip]]

\* Python truthiness, `not x`: None and the empty string are falsy, a
\* DailyRoomObject is always truthy.
NotNoneOnly(x) == x.t = "none"

Not(x) == x.t = "none" \/ (x.t = "str" /\ x.v = <<>>)

\* str(x) as an f-string applies it.
Format(x) == IF x.t = "none" THEN <<"None">> ELSE x.v

\* ------------------------------------------------------------- inputs
CallSidChars == {"c", " "}

RECURSIVE TextsOfLen(_)
TextsOfLen(n) ==
    IF n = 0 THEN {<<>>}
    ELSE {Append(s, c) : s \in TextsOfLen(n - 1), c \in CallSidChars}

CallSidValues == UNION {TextsOfLen(n) : n \in 0..MaxLen}

Field(name, value) == [name |-> name, value |-> value]

\* What `await request.form()` can produce: an exception, or the fields of
\* the body in order.
FormRaises == [raises |-> TRUE, fields |-> <<>>]

FormData(fields) == [raises |-> FALSE, fields |-> fields]

Forms ==
    {FormRaises, FormData(<<>>), FormData(<<Field("From", <<"c">>)>>)}
        \cup {FormData(<<Field("CallSid", v)>>) : v \in CallSidValues}

\* What the awaited create_room call can produce: an exception, no room, or
\* a fresh room.  The room service names every room it creates differently;
\* the room created for the call of request r is named after r.
Raised == [t |-> "raise"]

FreshRoom(r) == RoomObject(<<"r", ToString(r)>>, <<"s", ToString(r)>>)

RoomResults(r) == {Raised, None, FreshRoom(r)}

\* What the awaited get_token call can produce: an exception, no token, an
\* empty token, or a token bound to the room url it was asked for.
TokenFor(url) == <<"t">> \o url

TokenResults(url) == {Raised, None, Str(<<>>), Str(TokenFor(url))}

\* What subprocess.Popen(..., shell=True) can do: raise (the shell could not
\* be spawned), spawn a shell that starts the worker, or spawn a shell that
\* does not find the worker executable (the shell exits with 127 after
\* Popen has returned).
PopenResults == {"raises", "worker_started", "worker_not_found"}

\* -------------------------------------------------------------- state
VARIABLES
    environ,        \* os.environ restricted to REQUIRED_ENV_VARS
    phase,          \* "boot", "refused", "run", "serving", "stopped"
    reported,       \* the variable the startup exception names, or Unset
    daily_helpers,  \* the module-level registry
    aiohttp,        \* ClientSession objects: how many created, how many closed
    pc,             \* per request: "idle", "create_room", "get_token", "done"
    form,           \* per request: what request.form() produced
    callId,         \* per request: local callId
    room,           \* per request: local room
    token,          \* per request: local token
    trace           \* per request: outbound calls, launches and responses

vars == <<environ, phase, reported, daily_helpers, aiohttp,
          pc, form, callId, room, token, trace>>

server == <<environ, phase, reported, daily_helpers, aiohttp>>

\* ------------------------------------------------------------- events
CreateRoomCall(helper) ==
    [op |-> "create_room", client |-> helper.aiohttp_session]

GetTokenCall(helper, url, expiry) ==
    [op |-> "get_token", client |-> helper.aiohttp_session,
     url |-> url, expiry |-> expiry]

\* What an awaited call gave back to the coroutine of the request.
Returned(op, result) == [op |-> "returned", from |-> op, result |-> result]

PopenCall(cmd, result) == [op |-> "Popen", cmd |-> cmd, result |-> result]

Response(status, detail) ==
    [op |-> "response", status |-> status, detail |-> detail]

\* An exception that is no HTTPException leaves the handler: the framework
\* answers 500.
Unhandled == Response(500, "Internal Server Error")

HoldMusic == Response(200, "<Play loop=10>")

\* ------------------------------------------------------------ helpers
getenv(name, default) ==
    IF name \in DOMAIN environ /\ environ[name] # Unset
    THEN environ[name] ELSE default

\* for env_var in REQUIRED_ENV_VARS: if env_var not in os.environ: raise
MissingRequired(required) ==
    {i \in DOMAIN required : environ[required[i]] = Unset}

FirstMissing(required) ==
    LET m == MissingRequired(required)
    IN  required[CHOOSE i \in m : \A j \in m : i <= j]

\* dict(form_data): one entry per field name, a later field replacing an
\* earlier one of the same name.
Dict(fields) ==
    [n \in {fields[i].name : i \in DOMAIN fields} |->
        LET last == CHOOSE i \in DOMAIN fields :
                        /\ fields[i].name = n
                        /\ \A j \in DOMAIN fields : fields[j].name = n => j <= i
        IN  fields[last].value]

\* data.get(key)
Get(data, key) == IF key \in DOMAIN data THEN Str(data[key]) ELSE None

\* try: data = dict(await request.form()) except Exception: data = {}
FormDict(f) == IF f.raises THEN Dict(<<>>) ELSE Dict(f.fields)

MissingCallId_NoneOnly(id) == NotNoneOnly(id)

\* if not callId
MissingCallId(id) == Not(id)

RoomStepFails_RaiseOnly(result) == result.t = "raise"

\* `await create_room(...)` raising, or `room.url` on None raising
\* AttributeError in the print that follows it.
RoomStepFails(result) == result.t = "raise" \/ result.t = "none"

UrlOf(r) == IF r.t = "room" THEN r.url ELSE Format(r)

SipOf(r) == IF r.t = "room" THEN r.config.sip_endpoint ELSE Format(r)

RoomOrTokenMissing_RoomOnly(rm, tk) == Not(rm)

\* if not room or not token
RoomOrTokenMissing(rm, tk) == Not(rm) \/ Not(tk)

\* f"python3 -m bot_twilio -u {room.url} -t {token} -i {callId} -s {sip}"
bot_proc(rm, tk, id) ==
    <<"python3", " ", "-m", " ", "bot_twilio", " ", "-u", " ">> \o UrlOf(rm)
        \o <<" ", "-t", " ">> \o Format(tk)
        \o <<" ", "-i", " ">> \o Format(id)
        \o <<" ", "-s", " ">> \o SipOf(rm)

\* The shell that Popen(shell=True) runs the command line through splits it
\* into words at every run of spaces.
RECURSIVE Words(_, _, _)
Words(s, cur, acc) ==
    IF s = <<>> THEN (IF cur = <<>> THEN acc ELSE Append(acc, cur))
    ELSE IF Head(s) = " "
         THEN Words(Tail(s), <<>>, IF cur = <<>> THEN acc ELSE Append(acc, cur))
         ELSE Words(Tail(s), Append(cur, Head(s)), acc)

ShellSplit(cmd) == Words(cmd, <<>>, <<>>)

RestHelper_PerRequest ==
    [daily_helpers["rest"] EXCEPT !.aiohttp_session = @ + 1]

\* daily_helpers["rest"]
RestHelper == daily_helpers["rest"]

Emit(r, events) == trace' = [trace EXCEPT ![r] = @ \o events]

\* ------------------------------------------------------------ actions
Init ==
    /\ environ \in [EnvNames -> {Unset, "key"}]
    /\ phase = "boot"
    /\ reported = Unset
    /\ daily_helpers = <<>>
    /\ aiohttp = [created |-> 0, closed |-> 0]
    /\ pc = [r \in Reqs |-> "idle"]
    /\ form = [r \in Reqs |-> FormRaises]
    /\ callId = [r \in Reqs |-> None]
    /\ room = [r \in Reqs |-> None]
    /\ token = [r \in Reqs |-> None]
    /\ trace = [r \in Reqs |-> <<>>]

\* __main__: the environment check, then uvicorn.run.
Main ==
    /\ phase = "boot"
    /\ IF MissingRequired(REQUIRED_ENV_VARS) # {}
       THEN /\ phase' = "refused"
            /\ reported' = FirstMissing(REQUIRED_ENV_VARS)
       ELSE /\ phase' = "run"
            /\ reported' = reported
    /\ UNCHANGED <<environ, daily_helpers, aiohttp,
                   pc, form, callId, room, token, trace>>

\* lifespan, up to its yield.
LifespanStartup ==
    /\ phase = "run"
    /\ aiohttp' = [aiohttp EXCEPT !.created = @ + 1]
    /\ daily_helpers' =
           [k \in {"rest"} |->
               [daily_api_key |-> getenv("DAILY_API_KEY", ""),
                aiohttp_session |-> aiohttp.created + 1]]
    /\ phase' = "serving"
    /\ UNCHANGED <<environ, reported, pc, form, callId, room, token, trace>>

\* lifespan, after its yield: the server has stopped accepting requests and
\* the requests in flight have finished.
LifespanShutdown ==
    /\ phase = "serving"
    /\ \A r \in Reqs : pc[r] \in {"idle", "done"}
    /\ aiohttp' = [aiohttp EXCEPT !.closed = @ + 1]
    /\ phase' = "stopped"
    /\ UNCHANGED <<environ, reported, daily_helpers,
                   pc, form, callId, room, token, trace>>

\* twilio_start_bot up to the await of create_room in create_daily_room.
Receive(r, f) ==
    /\ phase = "serving"
    /\ pc[r] = "idle"
    /\ form' = [form EXCEPT ![r] = f]
    /\ LET id == Get(FormDict(f), "CallSid")
       IN  /\ callId' = [callId EXCEPT ![r] = id]
           /\ IF MissingCallId(id)
              THEN /\ Emit(r, <<Response(500, "Missing 'CallSid' in request")>>)
                   /\ pc' = [pc EXCEPT ![r] = "done"]
              ELSE /\ Emit(r, <<CreateRoomCall(RestHelper)>>)
                   /\ pc' = [pc EXCEPT ![r] = "create_room"]
    /\ UNCHANGED <<server, room, token>>

\* create_daily_room from the return of create_room to the await of
\* get_token.
RoomReturns(r, result) ==
    /\ pc[r] = "create_room"
    /\ IF RoomStepFails(result)
       THEN /\ Emit(r, <<Returned("create_room", result), Unhandled>>)
            /\ pc' = [pc EXCEPT ![r] = "done"]
            /\ room' = room
       ELSE /\ room' = [room EXCEPT ![r] = result]
            /\ Emit(r, <<Returned("create_room", result),
                         GetTokenCall(RestHelper, UrlOf(result), MAX_SESSION_TIME)>>)
            /\ pc' = [pc EXCEPT ![r] = "get_token"]
    /\ UNCHANGED <<server, form, callId, token>>

\* create_daily_room from the return of get_token to its end, and the rest
\* of twilio_start_bot.
TokenReturns(r, result, popen) ==
    /\ pc[r] = "get_token"
    /\ pc' = [pc EXCEPT ![r] = "done"]
    /\ IF result.t = "raise"
       THEN /\ Emit(r, <<Returned("get_token", result), Unhandled>>)
            /\ token' = token
       ELSE /\ token' = [token EXCEPT ![r] = result]
            /\ IF RoomOrTokenMissing(room[r], result)
               THEN Emit(r, <<Returned("get_token", result),
                              Response(500, "Failed to get room or token")>>)
               ELSE LET cmd == bot_proc(room[r], result, callId[r])
                    IN  IF popen = "raises"
                        THEN Emit(r, <<Returned("get_token", result),
                                       PopenCall(cmd, popen),
                                       Response(500, "Failed to start subprocess")>>)
                        ELSE Emit(r, <<Returned("get_token", result),
                                       PopenCall(cmd, popen), HoldMusic>>)
    /\ UNCHANGED <<server, form, callId, room>>

Next ==
    \/ Main
    \/ LifespanStartup
    \/ LifespanShutdown
    \/ \E r \in Reqs, f \in Forms : Receive(r, f)
    \/ \E r \in Reqs : \E result \in RoomResults(r) : RoomReturns(r, result)
    \/ \E r \in Reqs : \E result \in TokenResults(UrlOf(room[r])) :
           \E popen \in PopenResults : TokenReturns(r, result, popen)

Spec == Init /\ [][Next]_vars

\* ----------------------------------------------- reading the traces
Events(r, op) == SelectSeq(trace[r], LAMBDA e : e.op = op)

Count(r, op) == Len(Events(r, op))

Results(r, op) ==
    SelectSeq(trace[r], LAMBDA e : e.op = "returned" /\ e.from = op)

\* The position of the first event of the kind in the trace, 0 if none.
First(r, op) ==
    IF Count(r, op) = 0 THEN 0
    ELSE CHOOSE i \in DOMAIN trace[r] :
             /\ trace[r][i].op = op
             /\ \A j \in DOMAIN trace[r] : trace[r][j].op = op => i <= j

Answered(r, status) ==
    \E i \in DOMAIN trace[r] :
        trace[r][i].op = "response" /\ trace[r][i].status = status

\* The request's body gives no call identifier: it does not parse, or it has
\* no CallSid field that is not empty.
NoCallSid(f) ==
    \/ f.raises
    \/ \A i \in DOMAIN f.fields :
           f.fields[i].name = "CallSid" => f.fields[i].value = <<>>

\* The CallSid the request's body carries.
CallSidOf(f) ==
    f.fields[CHOOSE i \in DOMAIN f.fields : f.fields[i].name = "CallSid"].value

\* The argument list of the worker that the shell starts for a command.
WorkerArgv(cmd) == ShellSplit(cmd)

\* The word that follows a flag in an argument list, <<>> if there is none.
ArgAfter(argv, flag) ==
    IF \E i \in 1..(Len(argv) - 1) : argv[i] = <<flag>>
    THEN argv[1 + CHOOSE i \in 1..(Len(argv) - 1) :
                  /\ argv[i] = <<flag>>
                  /\ \A j \in 1..(Len(argv) - 1) : argv[j] = <<flag>> => i <= j]
    ELSE <<>>

\* The workers started for a request.
Started(r) ==
    SelectSeq(trace[r], LAMBDA e : e.op = "Popen" /\ e.result = "worker_started")

\* ------------------------------------------------------------- claims

\* C1: a request whose call identifier cannot be obtained (form does not
\* parse, no CallSid field, empty CallSid) is answered 500 with the
\* missing-CallSid detail and makes no room call, no token call and no
\* worker launch: the response is the only thing it ever does.
C1_MissingCallSid ==
    \A r \in Reqs :
        (pc[r] # "idle" /\ NoCallSid(form[r])) =>
            /\ pc[r] = "done"
            /\ trace[r] = <<Response(500, "Missing 'CallSid' in request")>>

C1_Witness ==
    \E r1, r2 \in Reqs :
        /\ pc[r1] = "done" /\ form[r1] = FormRaises
        /\ pc[r2] = "done" /\ form[r2] = FormData(<<Field("CallSid", <<>>)>>)

\* C2: a request answered with the 200 hold-music response made exactly one
\* room-creation call and exactly one token call, and the expiry of the
\* token call is 300 seconds.
C2_OneRoomOneToken300 ==
    \A r \in Reqs :
        Answered(r, 200) =>
            /\ Count(r, "create_room") = 1
            /\ Count(r, "get_token") = 1
            /\ \A i \in DOMAIN trace[r] :
                   trace[r][i].op = "get_token" => trace[r][i].expiry = 300

C2_Witness ==
    \E r1, r2 \in Reqs :
        /\ r1 # r2
        /\ Answered(r1, 200) /\ Answered(r2, 200)
        /\ callId[r1] # callId[r2]

\* C3: for every successful sequence the worker is started with exactly the
\* four flag arguments -u room url, -t token, -i call id, -s bridge address
\* in that order, each value being the one the room service, the token
\* service and the CallSid field gave, unmodified.
C3_WorkerArguments ==
    \A r \in Reqs :
        \A i \in DOMAIN Started(r) :
            Answered(r, 200) =>
                WorkerArgv(Started(r)[i].cmd) =
                    << <<"python3">>, <<"-m">>, <<"bot_twilio">>,
                       <<"-u">>, FreshRoom(r).url,
                       <<"-t">>, TokenFor(FreshRoom(r).url),
                       <<"-i">>, CallSidOf(form[r]),
                       <<"-s">>, FreshRoom(r).config.sip_endpoint >>

\* C4: when the room-creation call raises or returns no room, the request
\* is answered 500 and makes no token call and no worker launch.
C4_RoomFailure ==
    \A r \in Reqs :
        (\E i \in DOMAIN trace[r] :
            /\ trace[r][i].op = "returned"
            /\ trace[r][i].from = "create_room"
            /\ trace[r][i].result.t \in {"raise", "none"}) =>
                /\ Count(r, "get_token") = 0
                /\ Count(r, "Popen") = 0
                /\ pc[r] = "done"
                /\ Count(r, "response") = 1
                /\ Answered(r, 500)

C4_Witness ==
    \E r1, r2 \in Reqs :
        /\ pc[r1] = "done" /\ Results(r1, "create_room") = <<Returned("create_room", Raised)>>
        /\ pc[r2] = "done" /\ Results(r2, "create_room") = <<Returned("create_room", None)>>

\* C5: when the token call returns an empty or absent token after a room
\* was created, the request is answered 500 with the room-or-token detail,
\* no worker is launched and the 200 response is never given.
C5_TokenFailure ==
    \A r \in Reqs :
        (\E i \in DOMAIN trace[r] :
            /\ trace[r][i].op = "returned"
            /\ trace[r][i].from = "get_token"
            /\ trace[r][i].result \in {None, Str(<<>>)}) =>
                /\ room[r].t = "room"
                /\ Count(r, "Popen") = 0
                /\ ~Answered(r, 200)
                /\ Events(r, "response") =
                       <<Response(500, "Failed to get room or token")>>

C5_Witness ==
    \E r1, r2 \in Reqs :
        /\ Results(r1, "get_token") = <<Returned("get_token", None)>>
        /\ Results(r2, "get_token") = <<Returned("get_token", Str(<<>>))>>

\* C6: whenever launching the worker fails after room and token were
\* obtained, the case of the worker executable not being found included,
\* the request is answered 500 with the launch failure, never 200, and the
\* launch is issued once only.
C6_LaunchFailure ==
    \A r \in Reqs :
        \A i \in DOMAIN trace[r] :
            (/\ trace[r][i].op = "Popen"
             /\ trace[r][i].result \in {"raises", "worker_not_found"}) =>
                /\ Count(r, "Popen") = 1
                /\ ~Answered(r, 200)
                /\ Events(r, "response") =
                       <<Response(500, "Failed to start subprocess")>>

\* C7: with OPENAI_API_KEY or DAILY_API_KEY absent the process refuses to
\* start and names a variable that is absent (the first one in the order
\* checked); it never serves, never builds the room-service client and
\* never handles a request.
C7_RefusesToStart ==
    (environ["OPENAI_API_KEY"] = Unset \/ environ["DAILY_API_KEY"] = Unset) =>
        /\ phase \in {"boot", "refused"}
        /\ DOMAIN daily_helpers = {}
        /\ aiohttp.created = 0
        /\ \A r \in Reqs : pc[r] = "idle" /\ trace[r] = <<>>
        /\ phase = "boot" => reported = Unset
        /\ phase = "refused" =>
               /\ reported \in EnvNames
               /\ environ[reported] = Unset
               /\ reported = (IF environ["OPENAI_API_KEY"] = Unset
                              THEN "OPENAI_API_KEY" ELSE "DAILY_API_KEY")

C7_Witness ==
    /\ phase = "refused"
    /\ environ["OPENAI_API_KEY"] # Unset
    /\ reported = "DAILY_API_KEY"

\* C8: under every interleaving, the worker started for a request receives
\* that request's call id, the room url and bridge address returned to that
\* request and the token requested for that room url, and no two requests'
\* workers receive the same room.
C8_WorkerReceivesOwnValues ==
    /\ \A r \in Reqs :
           \A i \in DOMAIN Started(r) :
               LET argv == WorkerArgv(Started(r)[i].cmd)
               IN  /\ ArgAfter(argv, "-i") = CallSidOf(form[r])
                   /\ ArgAfter(argv, "-u") = FreshRoom(r).url
                   /\ ArgAfter(argv, "-s") = FreshRoom(r).config.sip_endpoint
                   /\ ArgAfter(argv, "-t") = TokenFor(FreshRoom(r).url)
    /\ \A r1, r2 \in Reqs :
           (r1 # r2 /\ Started(r1) # <<>> /\ Started(r2) # <<>>) =>
               ArgAfter(WorkerArgv(Started(r1)[1].cmd), "-u")
                   # ArgAfter(WorkerArgv(Started(r2)[1].cmd), "-u")

\* The part of C8 that is about interleaving alone: the command line a
\* request hands to Popen is built from that request's own call id, the
\* room returned to that request and the token requested for that room.
LaunchCommandIsOwn ==
    \A r \in Reqs :
        \A i \in DOMAIN trace[r] :
            trace[r][i].op = "Popen" =>
                trace[r][i].cmd =
                    bot_proc(FreshRoom(r), Str(TokenFor(FreshRoom(r).url)),
                             Str(CallSidOf(form[r])))

\* C9: every request is a single forward pass: at most one room call, one
\* token call, one launch, in that order; a step is attempted only if the
\* steps before it succeeded; 200 is given only after the launch was
\* issued; a finished request has exactly one response, 200 or 500, and
\* nothing follows the response.
C9_SingleForwardPass ==
    \A r \in Reqs :
        /\ Count(r, "create_room") <= 1
        /\ Count(r, "get_token") <= 1
        /\ Count(r, "Popen") <= 1
        /\ Count(r, "response") <= 1
        /\ Count(r, "get_token") = 1 =>
               /\ Results(r, "create_room") = <<Returned("create_room", FreshRoom(r))>>
               /\ First(r, "create_room") < First(r, "get_token")
        /\ Count(r, "Popen") = 1 =>
               /\ Count(r, "get_token") = 1
               /\ Results(r, "get_token") =
                      <<Returned("get_token", Str(TokenFor(FreshRoom(r).url)))>>
               /\ First(r, "get_token") < First(r, "Popen")
        /\ Answered(r, 200) =>
               /\ Count(r, "Popen") = 1
               /\ First(r, "Popen") < First(r, "response")
        /\ pc[r] = "done" <=> Count(r, "response") = 1
        /\ Count(r, "response") = 1 =>
               /\ trace[r][Len(trace[r])].op = "response"
               /\ trace[r][Len(trace[r])].status \in {200, 500}

C9_Witness ==
    \E r1, r2 \in Reqs :
        /\ Answered(r1, 200)
        /\ Answered(r2, 500) /\ Count(r2, "get_token") = 1
        /\ First(r1, "create_room") = 1 /\ First(r1, "response") = Len(trace[r1])

\* C10: the outbound client is created once, at startup, before any request
\* is handled, and closed once, at shutdown; handling requests never
\* replaces or changes the registry entry holding it; every room and token
\* call goes through that one client.
C10_State ==
    /\ aiohttp.created <= 1
    /\ aiohttp.closed <= aiohttp.created
    /\ aiohttp.closed = (IF phase = "stopped" THEN 1 ELSE 0)
    /\ phase \in {"serving", "stopped"} <=> aiohttp.created = 1
    /\ phase \in {"serving", "stopped"} <=> DOMAIN daily_helpers = {"rest"}
    /\ \A r \in Reqs :
           /\ pc[r] # "idle" => aiohttp.created = 1
           /\ \A i \in DOMAIN trace[r] :
                  trace[r][i].op \in {"create_room", "get_token"} =>
                      /\ trace[r][i].client = 1
                      /\ trace[r][i].client = daily_helpers["rest"].aiohttp_session

C10_Step ==
    /\ DOMAIN daily_helpers # {} => daily_helpers' = daily_helpers
    /\ (\E r \in Reqs : pc'[r] # pc[r]) =>
           /\ daily_helpers' = daily_helpers
           /\ aiohttp' = aiohttp

C10_OneSharedClient == [](C10_State) /\ [][C10_Step]_vars

C10_Witness ==
    /\ phase = "stopped"
    /\ aiohttp = [created |-> 1, closed |-> 1]
    /\ \A r \in Reqs : Count(r, "get_token") = 1

====
